---- MODULE Spec2Model ----
(***************************************************************************)
(* A model of pysubclasses: the class registry (registry.rs), the name     *)
(* resolution helpers (utils.rs), the inheritance graph (graph.rs) and the *)
(* finder (lib.rs), fed by the parse pipeline (parser.rs, cache.rs).        *)
(*                                                                         *)
(* Strings.  A Rust String is modelled by the sequence of its dot-free     *)
(* components: "pkg.base" is <<"pkg", "base">>, "Animal" is <<"Animal">>   *)
(* and the empty string is <<"">> (as "".split('.') yields [""]).  With    *)
(* this encoding format!("{a}.{b}") is a \o b, s.split('.') is s itself    *)
(* and parts.join(".") is the concatenation of the parts.                  *)
(*                                                                         *)
(* Option<T> is modelled by a sequence of length at most one.              *)
(***************************************************************************)
EXTENDS Naturals, Sequences, FiniteSets

VARIABLES
    pc,        \* position of the run: "add", "reexports", "indexed", "ready"
    files,     \* paths of the discovered files whose ParsedFile is indexed
    registry,  \* SubclassFinder.registry: the ClassRegistry
               \*   classes:    ClassId -> ClassInfo
               \*   name_index: class name -> Seq(ClassId)
               \*   imports:    module path -> Seq(Import)
               \*   re_exports: ClassId -> ClassId
               \*   packages:   set of module paths
    graph,     \* SubclassFinder.graph: the InheritanceGraph
               \*   modules:        module path -> ModuleMetadata
               \*   classes:        set of ClassId
               \*   class_children: ClassId -> Seq(ClassId)
               \*   class_parents:  ClassId -> Seq(ClassId)
    call,      \* the call in progress, or last answered, on the built finder
    disk,      \* the source tree: file path -> [source, meta]; meta stands for
               \*   the (modification time, size) pair of the file
    clock,     \* number of writes to the source tree so far
    cache_file,\* .pysubclasses-cache: file path -> CacheEntry [meta, parsed]
    run,       \* the with_options call in progress, or the last one finished
    prev,      \* how many runs came before `run`, and how the last one ended
    stmt,      \* a relative `from ... import` statement and what each
               \*   implementation of the normalisation makes of it
    threads,   \* thread -> the locals of the query it runs on the built finder
    order      \* the ParsedFile list handed to Registry::build, in its order

finder == <<pc, files, registry, graph, call>>
pipeline == <<disk, clock, cache_file, run, prev>>
vars == <<pc, files, registry, graph, call, disk, clock, cache_file, run, prev,
          stmt, threads, order>>

-----------------------------------------------------------------------------
(* Option, strings, maps *)

None == <<>>
Some(v) == <<v>>
IsSome(o) == o # <<>>
Unwrap(o) == o[1]
UnwrapOr(o, d) == IF o = <<>> THEN d ELSE o[1]

EmptyStr == <<"">>
Dot(a, b) == a \o b

EmptyMap == [k \in {} |-> {}]
Put(f, k, v) == [x \in (DOMAIN f) \cup {k} |-> IF x = k THEN v ELSE f[x]]
Get(f, k) == IF k \in DOMAIN f THEN Some(f[k]) ELSE None

SeqToSet(s) == {s[i] : i \in 1..Len(s)}
Contains(s, x) == \E i \in 1..Len(s) : s[i] = x

ClassId(module_path, class_name) ==
    [module_path |-> module_path, class_name |-> class_name]

Simple(name) == [kind |-> "Simple", parts |-> name]
Attribute(parts) == [kind |-> "Attribute", parts |-> parts]

ImportModule(module, alias) ==
    [kind |-> "Module", module |-> module, alias |-> alias]
ImportFrom(module, names) ==
    [kind |-> "From", module |-> module, names |-> names]
ImportRelativeFrom(level, module, names) ==
    [kind |-> "RelativeFrom", level |-> level, module |-> module, names |-> names]

-----------------------------------------------------------------------------
(* utils.rs *)

SaturatingSub(a, b) == IF a >= b THEN a - b ELSE 0

resolve_relative_import_base(current_module, level, is_package) ==
    IF level = 0 THEN None
    ELSE
      LET parts == current_module
          keep == IF is_package THEN SaturatingSub(Len(parts), level - 1)
                  ELSE SaturatingSub(Len(parts), level)
      IN IF is_package /\ level = 1 THEN Some(current_module)
         ELSE IF keep = 0 THEN Some(EmptyStr)
         ELSE Some(SubSeq(parts, 1, keep))

\* names.iter().find(|(n, alias)| alias.as_ref().unwrap_or(n) == name)
RECURSIVE FindBinding(_, _, _)
FindBinding(names, i, name) ==
    IF i > Len(names) THEN None
    ELSE IF UnwrapOr(names[i][2], names[i][1]) = name THEN Some(names[i])
    ELSE FindBinding(names, i + 1, name)

RECURSIVE resolve_name_at(_, _, _, _, _)
resolve_name_at(i, name, imps, current_module, is_package) ==
    IF i > Len(imps) THEN None
    ELSE
      LET import == imps[i]
          rest == resolve_name_at(i + 1, name, imps, current_module, is_package)
      IN CASE import.kind = "Module" ->
                IF UnwrapOr(import.alias, import.module) = name
                THEN Some(import.module) ELSE rest
           [] import.kind = "From" ->
                LET hit == FindBinding(import.names, 1, name)
                IN IF IsSome(hit) THEN Some(Dot(import.module, Unwrap(hit)[1]))
                   ELSE rest
           [] import.kind = "RelativeFrom" ->
                LET hit == FindBinding(import.names, 1, name)
                IN IF IsSome(hit)
                   THEN LET base == resolve_relative_import_base(
                                        current_module, import.level, is_package)
                            n == Unwrap(hit)[1]
                        IN IF base = None THEN None
                           ELSE IF Unwrap(base) = EmptyStr
                                THEN IF import.module = None THEN Some(n)
                                     ELSE Some(Dot(Unwrap(import.module), n))
                                ELSE IF import.module = None
                                     THEN Some(Dot(Unwrap(base), n))
                                     ELSE Some(Dot(Dot(Unwrap(base),
                                                       Unwrap(import.module)), n))
                   ELSE rest

resolve_name(name, imps, current_module, is_package) ==
    resolve_name_at(1, name, imps, current_module, is_package)

-----------------------------------------------------------------------------
(* registry.rs *)

ClassRegistry_new ==
    [classes |-> EmptyMap, name_index |-> EmptyMap, imports |-> EmptyMap,
     re_exports |-> EmptyMap, packages |-> {}]

add_class(reg, class) ==
    LET id == ClassId(class.module_path, class.name)
        info == [id |-> id, file_path |-> class.file_path, bases |-> class.bases]
        entry == UnwrapOr(Get(reg.name_index, class.name), <<>>)
    IN [reg EXCEPT !.name_index = Put(@, class.name, Append(entry, id)),
                   !.classes = Put(@, id, info)]

RECURSIVE add_classes(_, _, _)
add_classes(reg, cls, i) ==
    IF i > Len(cls) THEN reg
    ELSE add_classes(add_class(reg, cls[i]), cls, i + 1)

add_file(reg, parsed) ==
    LET r1 == [reg EXCEPT !.imports = Put(@, parsed.module_path, parsed.imports)]
        r2 == IF parsed.is_package
              THEN [r1 EXCEPT !.packages = @ \cup {parsed.module_path}]
              ELSE r1
    IN add_classes(r2, parsed.classes, 1)

\* "the class exists directly or as a re-export"
Exported(reg, id) == id \in DOMAIN reg.classes \/ id \in DOMAIN reg.re_exports

\* for (name, alias) in names { ... reexports_to_add.push(..) }
RECURSIVE names_to_add(_, _, _, _, _)
names_to_add(reg, module_path, original_module, names, j) ==
    IF j > Len(names) THEN <<>>
    ELSE
      LET name == names[j][1]
          exported_name == UnwrapOr(names[j][2], name)
          original_id == ClassId(original_module, name)
          rest == names_to_add(reg, module_path, original_module, names, j + 1)
      IN IF Exported(reg, original_id)
         THEN <<(<<ClassId(module_path, exported_name), original_id>>)>> \o rest
         ELSE rest

\* the body of `for import in imports`
import_to_add(reg, module_path, import) ==
    CASE import.kind = "From" ->
           names_to_add(reg, module_path, import.module, import.names, 1)
      [] import.kind = "RelativeFrom" ->
           LET is_package == module_path \in reg.packages
               base == resolve_relative_import_base(module_path, import.level,
                                                    is_package)
           IN IF base = None THEN <<>>
              ELSE LET original_module ==
                           IF IsSome(import.module)
                           THEN IF Unwrap(base) = EmptyStr
                                THEN Unwrap(import.module)
                                ELSE Dot(Unwrap(base), Unwrap(import.module))
                           ELSE Unwrap(base)
                   IN names_to_add(reg, module_path, original_module,
                                   import.names, 1)
      [] import.kind = "Module" -> <<>>

RECURSIVE imports_to_add(_, _, _, _)
imports_to_add(reg, module_path, imps, i) ==
    IF i > Len(imps) THEN <<>>
    ELSE import_to_add(reg, module_path, imps[i])
         \o imports_to_add(reg, module_path, imps, i + 1)

\* for (module_path, imports) in &self.imports: the iteration order of the
\* hash map is not fixed; the keys pushed for two modules never coincide, so
\* the outcome of a pass does not depend on it.
RECURSIVE reexports_to_add(_, _)
reexports_to_add(reg, todo) ==
    IF todo = {} THEN <<>>
    ELSE LET module_path == CHOOSE m \in todo : TRUE
         IN imports_to_add(reg, module_path, reg.imports[module_path], 1)
            \o reexports_to_add(reg, todo \ {module_path})

\* for (reexport_id, original_id) in reexports_to_add: insert where vacant
RECURSIVE insert_vacant(_, _, _)
insert_vacant(re, adds, i) ==
    IF i > Len(adds) THEN re
    ELSE IF adds[i][1] \in DOMAIN re THEN insert_vacant(re, adds, i + 1)
    ELSE insert_vacant(Put(re, adds[i][1], adds[i][2]), adds, i + 1)

\* one iteration of the `while changed` loop of build_reexports
reexport_pass(reg) ==
    [reg EXCEPT !.re_exports =
        insert_vacant(@, reexports_to_add(reg, DOMAIN reg.imports), 1)]

find_by_name(reg, name) == Get(reg.name_index, name)

\* The loop of resolve_through_reexports: one iteration on the loop state
\* [current, visited, status, result].
reexport_walk_start(id) ==
    [current |-> id, visited |-> {}, status |-> "loop", result |-> None]

\* Mutant: the first table entry is taken as the answer, the chain behind it is
\* not followed.
reexport_walk_step_one_hop(reg, w) ==
    IF w.current \in w.visited
    THEN [w EXCEPT !.status = "done", !.result = None]
    ELSE LET visited == w.visited \cup {w.current}
         IN IF w.current \in DOMAIN reg.re_exports
            THEN [w EXCEPT !.visited = visited, !.status = "done",
                           !.result = Some(reg.re_exports[w.current])]
            ELSE IF w.current \in DOMAIN reg.classes
                 THEN [w EXCEPT !.visited = visited, !.status = "done",
                                !.result = Some(w.current)]
                 ELSE [w EXCEPT !.visited = visited, !.status = "done",
                                !.result = None]

reexport_walk_step(reg, w) ==
    IF w.current \in w.visited
    THEN [w EXCEPT !.status = "done", !.result = None]
    ELSE LET visited == w.visited \cup {w.current}
         IN IF w.current \in DOMAIN reg.re_exports
            THEN [w EXCEPT !.visited = visited,
                           !.current = reg.re_exports[w.current]]
            ELSE IF w.current \in DOMAIN reg.classes
                 THEN [w EXCEPT !.visited = visited, !.status = "done",
                                !.result = Some(w.current)]
                 ELSE [w EXCEPT !.visited = visited, !.status = "done",
                                !.result = None]

RECURSIVE reexport_walk_run(_, _)
reexport_walk_run(reg, w) ==
    IF w.status = "done" THEN w.result
    ELSE reexport_walk_run(reg, reexport_walk_step(reg, w))

resolve_through_reexports(reg, id) ==
    reexport_walk_run(reg, reexport_walk_start(id))

\* for i in (0..parts.len() - 1).rev(): module path parts[..=i], class name the
\* last part.  `n` is i + 1, the number of leading parts taken.
RECURSIVE qualified_name_from(_, _, _)
qualified_name_from(reg, parts, n) ==
    IF n = 0 THEN None
    ELSE LET id == ClassId(SubSeq(parts, 1, n), <<parts[Len(parts)]>>)
             resolved == resolve_through_reexports(reg, id)
         IN IF IsSome(resolved) THEN resolved
            ELSE qualified_name_from(reg, parts, n - 1)

\* Mutant: a name that is a module path resolves to a class of that module.
find_class_by_qualified_name_module_as_class(reg, qualified) ==
    IF \E id \in DOMAIN reg.classes : id.module_path = qualified
    THEN Some(CHOOSE id \in DOMAIN reg.classes : id.module_path = qualified)
    ELSE qualified_name_from(reg, qualified, Len(qualified) - 1)

find_class_by_qualified_name(reg, qualified) ==
    qualified_name_from(reg, qualified, Len(qualified) - 1)

\* the loop of the Attribute arm of resolve_base
RECURSIVE resolve_attribute_from(_, _, _, _)
resolve_attribute_from(reg, parts, context_module, n) ==
    IF n = 0 THEN None
    ELSE
      LET class_name == <<parts[Len(parts)]>>
          module_path == SubSeq(parts, 1, n)
          imported ==
            IF context_module \in DOMAIN reg.imports
            THEN resolve_name(<<parts[1]>>, reg.imports[context_module],
                              context_module, context_module \in reg.packages)
            ELSE None
          via_import ==
            IF IsSome(imported)
            THEN LET full_module ==
                         IF Len(parts) > 2
                         THEN Dot(Unwrap(imported), SubSeq(parts, 2, Len(parts) - 1))
                         ELSE Unwrap(imported)
                 IN resolve_through_reexports(reg, ClassId(full_module, class_name))
            ELSE None
          direct == resolve_through_reexports(reg, ClassId(module_path, class_name))
      IN IF IsSome(via_import) THEN via_import
         ELSE IF IsSome(direct) THEN direct
         ELSE resolve_attribute_from(reg, parts, context_module, n - 1)

\* Mutant: a simple name bound by an import is the class the import names,
\* registered or not.
resolve_base_unchecked(reg, base, context_module) ==
    LET qualified ==
          IF base.kind = "Simple" /\ context_module \in DOMAIN reg.imports
          THEN resolve_name(base.parts, reg.imports[context_module],
                            context_module, context_module \in reg.packages)
          ELSE None
    IN IF IsSome(qualified) /\ Len(Unwrap(qualified)) >= 2
       THEN Some(ClassId(SubSeq(Unwrap(qualified), 1, Len(Unwrap(qualified)) - 1),
                         <<Unwrap(qualified)[Len(Unwrap(qualified))]>>))
       ELSE IF base.kind = "Simple"
            THEN resolve_through_reexports(reg, ClassId(context_module, base.parts))
            ELSE None

resolve_base(reg, base, context_module) ==
    IF base.kind = "Simple"
    THEN
      LET name == base.parts
          qualified ==
            IF context_module \in DOMAIN reg.imports
            THEN resolve_name(name, reg.imports[context_module], context_module,
                              context_module \in reg.packages)
            ELSE None
          same_module == resolve_through_reexports(reg, ClassId(context_module, name))
          matches == find_by_name(reg, name)
      IN IF IsSome(qualified)
         THEN find_class_by_qualified_name(reg, Unwrap(qualified))
         ELSE IF IsSome(same_module) THEN same_module
         ELSE IF matches = None THEN None
         ELSE IF Len(Unwrap(matches)) = 1 THEN Some(Unwrap(matches)[1])
         ELSE None
    ELSE
      IF Len(base.parts) < 2 THEN None
      ELSE resolve_attribute_from(reg, base.parts, context_module,
                                  Len(base.parts) - 1)

-----------------------------------------------------------------------------
(* graph.rs *)

InheritanceGraph_new ==
    [modules |-> EmptyMap, classes |-> {}, class_children |-> EmptyMap,
     class_parents |-> EmptyMap]

\* First pass of build, the body of `for file in parsed_files`: the files are
\* visited in the order add_file receives them, so it is applied as each
\* record arrives.
register_module(g, file) ==
    [g EXCEPT !.modules = Put(@, file.module_path,
                              [file_path |-> file.file_path,
                               is_package |-> file.is_package]),
              !.classes = @ \cup {ClassId(file.module_path, file.classes[i].name)
                                   : i \in 1..Len(file.classes)}]

\* Mutant: the neighbour is appended whether or not it is already there.
PushAlways(s, x) == Append(s, x)

PushNew(s, x) == IF Contains(s, x) THEN s ELSE Append(s, x)

\* Mutant: the edge is entered in the children map only.
add_edge_children_only(g, parent_id, child_id) ==
    [g EXCEPT !.class_children =
                 Put(@, parent_id, PushNew(UnwrapOr(Get(@, parent_id), <<>>), child_id))]

\* children[parent] gains child, parents[child] gains parent
add_edge(g, parent_id, child_id) ==
    [g EXCEPT !.class_children =
                 Put(@, parent_id, PushNew(UnwrapOr(Get(@, parent_id), <<>>), child_id)),
              !.class_parents =
                 Put(@, child_id, PushNew(UnwrapOr(Get(@, child_id), <<>>), parent_id))]

\* Mutant: the first base that does not resolve ends the loop over the bases.
RECURSIVE add_base_edges_stop_at_unresolved(_, _, _, _, _)
add_base_edges_stop_at_unresolved(reg, g, child_id, bases, i) ==
    IF i > Len(bases) THEN g
    ELSE LET parent == resolve_base(reg, bases[i], child_id.module_path)
         IN IF IsSome(parent)
            THEN add_base_edges_stop_at_unresolved(
                     reg, add_edge(g, Unwrap(parent), child_id), child_id, bases, i + 1)
            ELSE g

\* for base in &class.bases: resolve the base in the module of the class
RECURSIVE add_base_edges(_, _, _, _, _)
add_base_edges(reg, g, child_id, bases, i) ==
    IF i > Len(bases) THEN g
    ELSE LET parent == resolve_base(reg, bases[i], child_id.module_path)
         IN add_base_edges(reg,
                           IF IsSome(parent) THEN add_edge(g, Unwrap(parent), child_id)
                           ELSE g,
                           child_id, bases, i + 1)

\* Third pass of build: for every class, for every base
RECURSIVE add_class_edges(_, _, _)
add_class_edges(reg, g, todo) ==
    IF todo = {} THEN g
    ELSE LET child_id == CHOOSE id \in todo : TRUE
         IN add_class_edges(reg,
                            add_base_edges(reg, g, child_id,
                                           reg.classes[child_id].bases, 1),
                            todo \ {child_id})

\* Mutant: the bases of one class only are resolved.
build_edges_one_class(reg, g) ==
    IF DOMAIN reg.classes = {} THEN g
    ELSE add_class_edges(reg, g, {CHOOSE id \in DOMAIN reg.classes : TRUE})

build_edges(reg, g) == add_class_edges(reg, g, DOMAIN reg.classes)

\* Mutant: a newly seen child is reported but not queued, so its own children
\* are never visited.
RECURSIVE visit_neighbours_no_enqueue(_, _, _)
visit_neighbours_no_enqueue(neighbours, i, s) ==
    IF i > Len(neighbours) THEN s
    ELSE IF neighbours[i] \in s.visited
         THEN visit_neighbours_no_enqueue(neighbours, i + 1, s)
    ELSE visit_neighbours_no_enqueue(neighbours, i + 1,
                          [visited |-> s.visited \cup {neighbours[i]},
                           result |-> Append(s.result, neighbours[i]),
                           queue |-> s.queue])

\* for child in children { if !visited.contains(&key) { ... } }
RECURSIVE visit_neighbours(_, _, _)
visit_neighbours(neighbours, i, s) ==
    IF i > Len(neighbours) THEN s
    ELSE IF neighbours[i] \in s.visited THEN visit_neighbours(neighbours, i + 1, s)
    ELSE visit_neighbours(neighbours, i + 1,
                          [visited |-> s.visited \cup {neighbours[i]},
                           result |-> Append(s.result, neighbours[i]),
                           queue |-> Append(s.queue, neighbours[i])])

\* while let Some(current) = queue.pop_front() { ... }
RECURSIVE bfs(_, _)
bfs(edges, s) ==
    IF s.queue = <<>> THEN s.result
    ELSE LET current == Head(s.queue)
             neighbours == UnwrapOr(Get(edges, current), <<>>)
         IN bfs(edges, visit_neighbours(neighbours, 1,
                                        [s EXCEPT !.queue = Tail(s.queue)]))

\* Mutant: the traversal starts with an empty visited set.
find_all_subclasses_unseeded(g, root) ==
    bfs(g.class_children,
        [queue |-> <<root>>, visited |-> {}, result |-> <<>>])

find_all_subclasses(g, root) ==
    bfs(g.class_children,
        [queue |-> <<root>>, visited |-> {root}, result |-> <<>>])

\* Mutant: the ancestors are the direct parents.
find_all_parent_classes_one_level(g, root) ==
    UnwrapOr(Get(g.class_parents, root), <<>>)

find_all_parent_classes(g, root) ==
    bfs(g.class_parents,
        [queue |-> <<root>>, visited |-> {root}, result |-> <<>>])

find_direct_subclasses(g, root) == UnwrapOr(Get(g.class_children, root), <<>>)

find_direct_parent_classes(g, root) == UnwrapOr(Get(g.class_parents, root), <<>>)

-----------------------------------------------------------------------------
(* String order: a.cmp(b) on Strings, component by component.  Every         *)
(* character of a component is greater than '.', so the order of the dotted  *)
(* strings is the lexicographic order of the component sequences.            *)

Alphabet == <<"", "A", "B", "C", "D", "X", "Z", "ext", "p", "q", "r", "s", "x">>
Rank(a) == CHOOSE i \in 1..Len(Alphabet) : Alphabet[i] = a

RECURSIVE StrLess(_, _)
StrLess(a, b) ==
    IF b = <<>> THEN FALSE
    ELSE IF a = <<>> THEN TRUE
    ELSE IF Head(a) = Head(b) THEN StrLess(Tail(a), Tail(b))
    ELSE Rank(Head(a)) < Rank(Head(b))

\* a.module_path.cmp(&b.module_path).then(a.class_name.cmp(&b.class_name))
RefLess(a, b) ==
    \/ StrLess(a.module_path, b.module_path)
    \/ a.module_path = b.module_path /\ StrLess(a.class_name, b.class_name)

\* results.sort_by(..): a stable sort
RECURSIVE InsertSorted(_, _)
InsertSorted(sorted, x) ==
    IF sorted = <<>> THEN <<x>>
    ELSE IF RefLess(x, Head(sorted)) THEN <<x>> \o sorted
    ELSE <<Head(sorted)>> \o InsertSorted(Tail(sorted), x)

RECURSIVE sort_by(_, _)
sort_by(results, i) ==
    IF i = 0 THEN <<>>
    ELSE InsertSorted(sort_by(results, i - 1), results[i])

-----------------------------------------------------------------------------
(* lib.rs *)

Ok(v) == [ok |-> TRUE, value |-> v]
Err(e) == [ok |-> FALSE, error |-> e]

ClassNotFound(name, module_path) ==
    [kind |-> "ClassNotFound", name |-> name, module_path |-> module_path]
AmbiguousClassName(name, candidates) ==
    [kind |-> "AmbiguousClassName", name |-> name, candidates |-> candidates]

\* A base-class expression as the extractor hands it over: a bare name, or a
\* dotted attribute chain.
base_of(name) == IF Len(name) = 1 THEN Simple(name) ELSE Attribute(name)

\* Mutant: only a class defined in the module itself is found.
resolve_class_defined_here(reg, module, class_name) ==
    IF ClassId(module, class_name) \in DOMAIN reg.classes
    THEN Some(ClassId(module, class_name))
    ELSE None

\* self.registry.resolve_class(module, class_name): the name as seen from the
\* module, through the registry's resolution of a reference.
resolve_class(reg, module, class_name) ==
    resolve_base(reg, base_of(class_name), module)

\* for class_id in self.registry.classes.keys(): in the map's iteration order
RECURSIVE keys_named(_, _)
keys_named(todo, class_name) ==
    IF todo = {} THEN <<>>
    ELSE LET class_id == CHOOSE id \in todo : TRUE
             rest == keys_named(todo \ {class_id}, class_name)
         IN IF class_id.class_name = class_name THEN <<class_id>> \o rest ELSE rest

\* Mutant: a module that re-exports the name counts as a match of the scan.
resolve_target_class_counting_reexports(reg, class_name, module_path) ==
    IF IsSome(module_path)
    THEN LET resolved_id == resolve_class(reg, Unwrap(module_path), class_name)
         IN IF IsSome(resolved_id) THEN Ok(Unwrap(resolved_id))
            ELSE Err(ClassNotFound(class_name, module_path))
    ELSE LET matches == keys_named(DOMAIN reg.classes \cup DOMAIN reg.re_exports,
                                   class_name)
         IN IF Len(matches) = 0 THEN Err(ClassNotFound(class_name, None))
            ELSE IF Len(matches) = 1 THEN Ok(matches[1])
            ELSE Err(AmbiguousClassName(
                       class_name,
                       [i \in 1..Len(matches) |-> matches[i].module_path]))

resolve_target_class(reg, class_name, module_path) ==
    IF IsSome(module_path)
    THEN LET resolved_id == resolve_class(reg, Unwrap(module_path), class_name)
         IN IF IsSome(resolved_id) THEN Ok(Unwrap(resolved_id))
            ELSE Err(ClassNotFound(class_name, module_path))
    ELSE LET matches == keys_named(DOMAIN reg.classes, class_name)
         IN IF Len(matches) = 0 THEN Err(ClassNotFound(class_name, None))
            ELSE IF Len(matches) = 1 THEN Ok(matches[1])
            ELSE Err(AmbiguousClassName(
                       class_name,
                       [i \in 1..Len(matches) |-> matches[i].module_path]))

\* .filter_map(|id| self.registry.modules.get(&id.module).map(..)).collect()
RECURSIVE to_references(_, _, _)
to_references(g, ids, i) ==
    IF i > Len(ids) THEN <<>>
    ELSE LET metadata == Get(g.modules, ids[i].module_path)
             rest == to_references(g, ids, i + 1)
         IN IF IsSome(metadata)
            THEN <<[class_name |-> ids[i].class_name,
                    module_path |-> ids[i].module_path,
                    file_path |-> Unwrap(metadata).file_path]>> \o rest
            ELSE rest

\* Mutant: the references are returned in traversal order, the sort is left out.
sorted_references_unsorted(g, ids) == to_references(g, ids, 1)

sorted_references(g, ids) ==
    LET results == to_references(g, ids, 1) IN sort_by(results, Len(results))

\* Mutant: a target that is not found gives an empty list instead of the error.
find_subclasses_empty_when_missing(reg, g, class_name, module_path, mode) ==
    LET target == resolve_target_class(reg, class_name, module_path)
    IN IF ~target.ok THEN Ok(<<>>)
       ELSE LET subclass_ids ==
                    IF mode = "Direct" THEN find_direct_subclasses(g, target.value)
                    ELSE find_all_subclasses(g, target.value)
            IN Ok(sorted_references(g, subclass_ids))

find_subclasses(reg, g, class_name, module_path, mode) ==
    LET target == resolve_target_class(reg, class_name, module_path)
    IN IF ~target.ok THEN target
       ELSE LET subclass_ids ==
                    IF mode = "Direct" THEN find_direct_subclasses(g, target.value)
                    ELSE find_all_subclasses(g, target.value)
            IN Ok(sorted_references(g, subclass_ids))

find_parent_classes(reg, g, class_name, module_path, mode) ==
    LET class_id == resolve_target_class(reg, class_name, module_path)
    IN IF ~class_id.ok THEN class_id
       ELSE LET parent_ids ==
                    IF mode = "Direct" THEN find_direct_parent_classes(g, class_id.value)
                    ELSE find_all_parent_classes(g, class_id.value)
            IN Ok(sorted_references(g, parent_ids))

-----------------------------------------------------------------------------
(* The source trees fed to the finder: ParsedFile records over four modules  *)
(* (package p, its modules p.q and p.s, top-level module r) and the class    *)
(* names A, B, C, D.  Each record is one possible content of the file at its *)
(* path; a tree holds at most one file per path (r.py and r/__init__.py both *)
(* give module r).  A run indexes up to MaxFiles files, in any order.        *)

MaxFiles == 3

P == <<"p">>
PQ == <<"p", "q">>
PS == <<"p", "s">>
R == <<"r">>
EXT == <<"ext">>
A == <<"A">>
B == <<"B">>
C == <<"C">>
D == <<"D">>

Class(name, module_path, file_path, bases) ==
    [name |-> name, module_path |-> module_path, file_path |-> file_path,
     bases |-> bases]

File(file_path, module_path, is_package, imps, cls) ==
    [file_path |-> file_path, module_path |-> module_path,
     is_package |-> is_package, imports |-> imps,
     classes |-> [i \in 1..Len(cls) |->
                    Class(cls[i][1], module_path, file_path, cls[i][2])]]

Name(n) == <<n, None>>
NameAs(n, alias) == <<n, Some(alias)>>

ParsedFiles == {
    \* p/q.py:  class A
    File("p/q.py", PQ, FALSE, <<>>, << <<A, <<>>>> >>),
    \* p/__init__.py:  from .q import A
    File("p/__init__.py", P, TRUE,
         <<ImportRelativeFrom(1, Some(<<"q">>), <<Name(A)>>)>>, <<>>),
    \* p/__init__.py:  from .q import A; class A(A)
    File("p/__init__.py", P, TRUE,
         <<ImportRelativeFrom(1, Some(<<"q">>), <<Name(A)>>)>>,
         << <<A, <<Simple(A)>>>> >>),
    \* r.py:  from p import A; class B(A)
    File("r.py", R, FALSE, <<ImportFrom(P, <<Name(A)>>)>>,
         << <<B, <<Simple(A)>>>> >>),
    \* p/s.py:  from r import A; class C(A)
    File("p/s.py", PS, FALSE, <<ImportFrom(R, <<Name(A)>>)>>,
         << <<C, <<Simple(A)>>>> >>),
    \* p/s.py:  from . import A; class B(A)
    File("p/s.py", PS, FALSE, <<ImportRelativeFrom(1, None, <<Name(A)>>)>>,
         << <<B, <<Simple(A)>>>> >>),
    \* r.py:  class A
    File("r.py", R, FALSE, <<>>, << <<A, <<>>>> >>),
    \* p/s.py:  from ext import A; class A(A)
    File("p/s.py", PS, FALSE, <<ImportFrom(EXT, <<Name(A)>>)>>,
         << <<A, <<Simple(A)>>>> >>),
    \* p/q.py:  from p.q import A; class A
    File("p/q.py", PQ, FALSE, <<ImportFrom(PQ, <<Name(A)>>)>>,
         << <<A, <<>>>> >>),
    \* r.py:  from p.s import A; class A
    File("r.py", R, FALSE, <<ImportFrom(PS, <<Name(A)>>)>>, << <<A, <<>>>> >>),
    \* r.py:  from p.q import A; class B(A); class C(A)
    File("r.py", R, FALSE, <<ImportFrom(PQ, <<Name(A)>>)>>,
         << <<B, <<Simple(A)>>>>, <<C, <<Simple(A)>>>> >>),
    \* p/s.py:  from r import B, C; class D(B, C)
    File("p/s.py", PS, FALSE, <<ImportFrom(R, <<Name(B), Name(C)>>)>>,
         << <<D, <<Simple(B), Simple(C)>>>> >>),
    \* r.py:  from p.s import B; class A(B)
    File("r.py", R, FALSE, <<ImportFrom(PS, <<Name(B)>>)>>,
         << <<A, <<Simple(B)>>>> >>),
    \* p/s.py:  from r import A; class B(A)
    File("p/s.py", PS, FALSE, <<ImportFrom(R, <<Name(A)>>)>>,
         << <<B, <<Simple(A)>>>> >>),
    \* r/__init__.py:  import p.q; import p.q as x; from p.q import A as Z
    \*                 class B(p.q.A); class C(x.A); class D(X, Z, Z, x.A)
    File("r/__init__.py", R, TRUE,
         <<ImportModule(PQ, None), ImportModule(PQ, Some(<<"x">>)),
           ImportFrom(PQ, <<NameAs(A, <<"Z">>)>>)>>,
         << <<B, <<Attribute(<<"p", "q", "A">>)>>>>,
            <<C, <<Attribute(<<"x", "A">>)>>>>,
            <<D, <<Simple(<<"X">>), Simple(<<"Z">>), Simple(<<"Z">>),
                   Attribute(<<"x", "A">>)>>>> >>),
    \* p/s.py:  class C(A); class B(B)
    File("p/s.py", PS, FALSE, <<>>,
         << <<C, <<Simple(A)>>>>, <<B, <<Simple(B)>>>> >>),
    \* r.py:  import ext as p; class B(p.A)
    File("r.py", R, FALSE, <<ImportModule(EXT, Some(P))>>,
         << <<B, <<Attribute(<<"p", "A">>)>>>> >>),
    \* p/s.py:  import r; import p.q as x; class C(r); class D(x)
    File("p/s.py", PS, FALSE,
         <<ImportModule(R, None), ImportModule(PQ, Some(<<"x">>))>>,
         << <<C, <<Simple(R)>>>>, <<D, <<Simple(<<"x">>)>>>> >>)
}

ModulePaths == {P, PQ, PS, R}
ClassNames == {A, B, C, D}
QueryNames == {A, B, D}
QueryModules == {None} \cup {Some(m) : m \in ModulePaths}
SearchModes == {"Direct", "All"}
WalkIds == {ClassId(m, A) : m \in ModulePaths}

-----------------------------------------------------------------------------
(* parser.rs, cache.rs, lib.rs: from the source tree to the finder *)

Remove(f, k) == [x \in DOMAIN f \ {k} |-> f[x]]
Last(s) == s[Len(s)]

ParseError(file, error) == [kind |-> "ParseError", file |-> file, error |-> error]

\* A Python source text is given by what the extractor reads from it, its
\* imports and its classes (name, bases); a text the Python parser rejects is
\* SyntaxError.
SyntaxError == [valid |-> FALSE]
Source(imps, cls) == [valid |-> TRUE, imports |-> imps, classes |-> cls]

\* rel_path.with_extension("").components(): the path below the root
\* directory, without the .py extension
without_ext(file_path) ==
    CASE file_path = "__init__.py" -> <<"__init__">>
      [] file_path = "p/__init__.py" -> <<"p", "__init__">>
      [] file_path = "p/q.py" -> <<"p", "q">>
      [] file_path = "p/s.py" -> <<"p", "s">>
      [] file_path = "r.py" -> <<"r">>
      [] file_path = "r/__init__.py" -> <<"r", "__init__">>

file_path_to_module_path(file_path) ==
    LET components == without_ext(file_path)
    IN IF components = <<>> THEN None
       ELSE LET module_parts ==
                    IF Last(components) = "__init__"
                    THEN SubSeq(components, 1, Len(components) - 1)
                    ELSE components
            IN IF module_parts = <<>> THEN None ELSE Some(module_parts)

parse_file(file_path, module_path, source) ==
    IF ~source.valid
    THEN Err(ParseError(file_path, "parse_module"))
    ELSE LET is_package == Last(without_ext(file_path)) = "__init__"
         IN Ok([file_path |-> file_path, module_path |-> module_path,
                is_package |-> is_package, imports |-> source.imports,
                classes |-> [i \in 1..Len(source.classes) |->
                               [name |-> source.classes[i][1],
                                module_path |-> module_path,
                                file_path |-> file_path,
                                bases |-> source.classes[i][2]]]])

\* the closure of parse_files, for one file
parse_one(file_path, source) ==
    LET module_path == file_path_to_module_path(file_path)
    IN IF module_path = None
       THEN Err(ParseError(file_path, "Failed to convert file path to module path"))
       ELSE parse_file(file_path, Unwrap(module_path), source)

\* Mutant: the successful parses are collected up to the first failure.
RECURSIVE collect_parsed_until_error(_, _)
collect_parsed_until_error(parse_results, i) ==
    IF i > Len(parse_results) THEN <<>>
    ELSE IF parse_results[i].ok
         THEN <<parse_results[i].value>>
                 \o collect_parsed_until_error(parse_results, i + 1)
         ELSE <<>>

\* parse_results.into_iter().filter_map(..).collect()
RECURSIVE collect_parsed(_, _)
collect_parsed(parse_results, i) ==
    IF i > Len(parse_results) THEN <<>>
    ELSE (IF parse_results[i].ok THEN <<parse_results[i].value>> ELSE <<>>)
         \o collect_parsed(parse_results, i + 1)

\* the registry of the parsed files: every file added, then the re-exports
RECURSIVE add_files(_, _, _)
add_files(reg, parsed_files, i) ==
    IF i > Len(parsed_files) THEN reg
    ELSE add_files(add_file(reg, parsed_files[i]), parsed_files, i + 1)

RECURSIVE build_reexports(_)
build_reexports(reg) ==
    LET next == reexport_pass(reg)
    IN IF next = reg THEN reg ELSE build_reexports(next)

Registry_build(parsed_files) ==
    build_reexports(add_files(ClassRegistry_new, parsed_files, 1))

RECURSIVE register_modules(_, _, _)
register_modules(g, parsed_files, i) ==
    IF i > Len(parsed_files) THEN g
    ELSE register_modules(register_module(g, parsed_files[i]), parsed_files, i + 1)

InheritanceGraph_build(reg, parsed_files) ==
    build_edges(reg, register_modules(InheritanceGraph_new, parsed_files, 1))

\* The source tree of the pipeline runs: the files discovery lists, in the
\* order it lists them, and the texts each may hold.
PythonFiles == <<"__init__.py", "p/q.py", "r.py">>

Texts(file_path) ==
    CASE file_path = "__init__.py" ->
           \* class D
           <<Source(<<>>, << <<D, <<>>>> >>)>>
      [] file_path = "p/q.py" ->
           \* class A | a text that does not parse
           <<Source(<<>>, << <<A, <<>>>> >>), SyntaxError>>
      [] file_path = "r.py" ->
           \* from p.q import A; class B(A) | class C | a text that does not parse
           <<Source(<<ImportFrom(PQ, <<Name(A)>>)>>, << <<B, <<Simple(A)>>>> >>),
             Source(<<>>, << <<C, <<>>>> >>),
             SyntaxError>>

FileSet == SeqToSet(PythonFiles)

MaxWrites == 2
MaxRuns == 3

NotParsed == [ok |-> FALSE, pending |-> TRUE]

NoRun ==
    [pc |-> "idle", use_cache |-> FALSE, cache |-> EmptyMap, i |-> 1,
     results |-> <<>>, files_to_parse |-> <<>>, parse_results |-> <<>>,
     k |-> 1, clock_start |-> 0, clock_end |-> 0]

NoPrev ==
    [n |-> 0, finished |-> FALSE, use_cache |-> FALSE, clock_start |-> 0,
     clock_end |-> 0]

PipelineIdle ==
    /\ disk = [f \in FileSet |-> [source |-> Texts(f)[1], meta |-> 0]]
    /\ clock = 0
    /\ cache_file = EmptyMap
    /\ run = NoRun
    /\ prev = NoPrev

-----------------------------------------------------------------------------
(* The run *)

NoCall == [op |-> "none"]
NoStatement == [level |-> 0]
Threads == {"t1", "t2"}
Idle == [op |-> "idle"]
NoThreads == [t \in Threads |-> Idle]

Init ==
    /\ pc = "add"
    /\ files = {}
    /\ registry = ClassRegistry_new
    /\ graph = InheritanceGraph_new
    /\ call = NoCall
    /\ PipelineIdle
    /\ stmt = NoStatement
    /\ threads = NoThreads
    /\ order = <<>>

\* One ParsedFile joins the index.  Discovery lists every path once, so the
\* record of a path already indexed does not come again.
AddFile(parsed) ==
    /\ pc = "add"
    /\ Cardinality(files) < MaxFiles
    /\ parsed.file_path \notin files
    /\ files' = files \cup {parsed.file_path}
    /\ registry' = add_file(registry, parsed)
    /\ graph' = register_module(graph, parsed)
    /\ UNCHANGED <<pc, call>>
    /\ UNCHANGED <<pipeline, stmt, threads, order>>

\* build_reexports: one iteration of its loop; the loop ends with the first
\* pass that adds nothing.
ReexportPass ==
    /\ pc \in {"add", "reexports"}
    /\ registry' = reexport_pass(registry)
    /\ pc' = IF registry' # registry THEN "reexports" ELSE "indexed"
    /\ UNCHANGED <<files, graph, call>>
    /\ UNCHANGED <<pipeline, stmt, threads, order>>

\* The parent-child relationships are built from the finished registry.
BuildGraph ==
    /\ pc = "indexed"
    /\ graph' = build_edges(registry, graph)
    /\ pc' = "ready"
    /\ UNCHANGED <<files, registry, call>>
    /\ UNCHANGED <<pipeline, stmt, threads, order>>

FindSubclasses(class_name, module_path, mode) ==
    /\ pc = "ready"
    /\ call = NoCall
    /\ call' = [op |-> "find_subclasses", class_name |-> class_name,
                module_path |-> module_path, mode |-> mode,
                result |-> find_subclasses(registry, graph, class_name,
                                           module_path, mode)]
    /\ UNCHANGED <<pc, files, registry, graph>>
    /\ UNCHANGED <<pipeline, stmt, threads, order>>

FindParentClasses(class_name, module_path, mode) ==
    /\ pc = "ready"
    /\ call = NoCall
    /\ call' = [op |-> "find_parent_classes", class_name |-> class_name,
                module_path |-> module_path, mode |-> mode,
                result |-> find_parent_classes(registry, graph, class_name,
                                               module_path, mode)]
    /\ UNCHANGED <<pc, files, registry, graph>>
    /\ UNCHANGED <<pipeline, stmt, threads, order>>

\* resolve_through_reexports is entered ...
WalkStart(id) ==
    /\ pc = "ready"
    /\ call = NoCall
    /\ call' = [op |-> "resolve_through_reexports", id |-> id,
                walk |-> reexport_walk_start(id)]
    /\ UNCHANGED <<pc, files, registry, graph>>
    /\ UNCHANGED <<pipeline, stmt, threads, order>>

\* ... and runs one iteration of its loop
WalkStep ==
    /\ pc = "ready"
    /\ call.op = "resolve_through_reexports"
    /\ call.walk.status = "loop"
    /\ call' = [call EXCEPT !.walk = reexport_walk_step(registry, call.walk)]
    /\ UNCHANGED <<pc, files, registry, graph>>
    /\ UNCHANGED <<pipeline, stmt, threads, order>>

\* The answer is handed back; the finder is free for the next call.
Return ==
    /\ pc = "ready"
    /\ call.op # "none"
    /\ call.op = "resolve_through_reexports" => call.walk.status = "done"
    /\ call' = NoCall
    /\ UNCHANGED <<pc, files, registry, graph>>
    /\ UNCHANGED <<pipeline, stmt, threads, order>>

Next ==
    \/ \E parsed \in ParsedFiles : AddFile(parsed)
    \/ ReexportPass
    \/ BuildGraph
    \/ \E n \in QueryNames, m \in QueryModules, mode \in SearchModes :
          FindSubclasses(n, m, mode)
    \/ \E n \in QueryNames, m \in QueryModules, mode \in SearchModes :
          FindParentClasses(n, m, mode)
    \/ \E id \in WalkIds : WalkStart(id)
    \/ WalkStep
    \/ Return

Spec == Init /\ [][Next]_vars

-----------------------------------------------------------------------------
(* The runs of the pipeline: SubclassFinder::with_options, step by step,    *)
(* on a source tree that may be written to at any moment.                   *)

\* Another program writes a file: new text, new modification time.
WriteFile(file_path, source) ==
    /\ clock < MaxWrites
    /\ source # disk[file_path].source
    /\ clock' = clock + 1
    /\ disk' = [disk EXCEPT ![file_path] = [source |-> source, meta |-> clock + 1]]
    /\ UNCHANGED <<cache_file, run, prev>>
    /\ UNCHANGED <<stmt, threads, order>>
    /\ UNCHANGED finder

\* with_options(root_dir, exclude_dirs, use_cache) is entered by a new process;
\* with use_cache, parse_with_cache loads the cache file.
StartRun(use_cache) ==
    /\ run.pc \in {"idle", "done"}
    /\ prev.n < MaxRuns
    /\ prev' = [n |-> prev.n + 1, finished |-> run.pc = "done",
                use_cache |-> run.use_cache, clock_start |-> run.clock_start,
                clock_end |-> run.clock_end]
    /\ run' = [NoRun EXCEPT
                 !.pc = IF use_cache THEN "check" ELSE "parse",
                 !.use_cache = use_cache,
                 !.cache = IF use_cache THEN cache_file ELSE EmptyMap,
                 !.files_to_parse = IF use_cache THEN <<>> ELSE PythonFiles,
                 !.parse_results = IF use_cache THEN <<>>
                                   ELSE [j \in 1..Len(PythonFiles) |-> NotParsed],
                 !.clock_start = clock]
    /\ pc' = "add"
    /\ files' = {}
    /\ registry' = ClassRegistry_new
    /\ graph' = InheritanceGraph_new
    /\ call' = NoCall
    /\ UNCHANGED <<disk, clock, cache_file>>
    /\ UNCHANGED <<stmt, threads, order>>

\* First pass of parse_with_cache, one file: a hit when the entry's metadata
\* equal the file's.
CheckCache ==
    /\ run.pc = "check"
    /\ LET file_path == PythonFiles[run.i]
           meta == disk[file_path].meta
           entry == Get(run.cache, file_path)
           hit == IsSome(entry) /\ Unwrap(entry).meta = meta
           to_parse == IF hit THEN run.files_to_parse
                       ELSE Append(run.files_to_parse, file_path)
           last == run.i = Len(PythonFiles)
       IN run' = [run EXCEPT
                    !.results = IF hit THEN Append(@, Ok(Unwrap(entry).parsed)) ELSE @,
                    !.files_to_parse = to_parse,
                    !.i = @ + 1,
                    !.pc = IF ~last THEN "check"
                           ELSE IF to_parse = <<>> THEN "save" ELSE "parse",
                    !.parse_results = IF last
                                      THEN [j \in 1..Len(to_parse) |-> NotParsed]
                                      ELSE @]
    /\ UNCHANGED <<disk, clock, cache_file, prev>>
    /\ UNCHANGED <<stmt, threads, order>>
    /\ UNCHANGED finder

\* parse_files: a worker reads and parses one of the files, in any order; the
\* result goes to the position of the file.
ParseOne(j) ==
    /\ run.pc = "parse"
    /\ j \in 1..Len(run.files_to_parse)
    /\ run.parse_results[j] = NotParsed
    /\ LET file_path == run.files_to_parse[j]
           parsed == [run.parse_results EXCEPT
                        ![j] = parse_one(file_path, disk[file_path].source)]
           all == \A x \in 1..Len(parsed) : parsed[x] # NotParsed
       IN run' = [run EXCEPT
                    !.parse_results = parsed,
                    !.pc = IF ~all THEN "parse"
                           ELSE IF run.use_cache THEN "update" ELSE "collect",
                    !.results = IF all /\ ~run.use_cache THEN parsed ELSE @]
    /\ UNCHANGED <<disk, clock, cache_file, prev>>
    /\ UNCHANGED <<stmt, threads, order>>
    /\ UNCHANGED finder

\* The loop over files_to_parse.zip(parse_results), one file: the entry of a
\* parsed file is stored with the metadata read now, the entry of a failed
\* one removed.
UpdateCache ==
    /\ run.pc = "update"
    /\ LET file_path == run.files_to_parse[run.k]
           result == run.parse_results[run.k]
           meta == disk[file_path].meta
       IN run' = [run EXCEPT
                    !.cache = IF result.ok
                              THEN Put(@, file_path,
                                       [meta |-> meta, parsed |-> result.value])
                              ELSE Remove(@, file_path),
                    !.results = Append(@, result),
                    !.k = @ + 1,
                    !.pc = IF run.k = Len(run.files_to_parse) THEN "save" ELSE "update"]
    /\ UNCHANGED <<disk, clock, cache_file, prev>>
    /\ UNCHANGED <<stmt, threads, order>>
    /\ UNCHANGED finder

\* if cache_misses > 0 { cache.save(..) }
SaveCache ==
    /\ run.pc = "save"
    /\ cache_file' = IF Len(run.files_to_parse) > 0 THEN run.cache ELSE cache_file
    /\ run' = [run EXCEPT !.pc = "collect"]
    /\ UNCHANGED <<disk, clock, prev>>
    /\ UNCHANGED <<stmt, threads, order>>
    /\ UNCHANGED finder

\* The successful parses are collected, the registry and the graph built.
Construct ==
    /\ run.pc = "collect"
    /\ LET parsed_files == collect_parsed(run.results, 1)
       IN /\ registry' = Registry_build(parsed_files)
          /\ graph' = InheritanceGraph_build(registry', parsed_files)
          /\ files' = {parsed_files[i].file_path : i \in 1..Len(parsed_files)}
    /\ pc' = "ready"
    /\ call' = NoCall
    /\ run' = [run EXCEPT !.pc = "done", !.clock_end = clock]
    /\ UNCHANGED <<disk, clock, cache_file, prev>>
    /\ UNCHANGED <<stmt, threads, order>>

PipelineInit ==
    /\ pc = "add"
    /\ files = {}
    /\ registry = ClassRegistry_new
    /\ graph = InheritanceGraph_new
    /\ call = NoCall
    /\ \E choice \in [FileSet -> 1..3] :
          /\ \A f \in FileSet : choice[f] <= Len(Texts(f))
          /\ disk = [f \in FileSet |-> [source |-> Texts(f)[choice[f]], meta |-> 0]]
    /\ clock = 0
    /\ cache_file = EmptyMap
    /\ run = NoRun
    /\ prev = NoPrev
    /\ stmt = NoStatement
    /\ threads = NoThreads
    /\ order = <<>>

PipelineNext ==
    \/ \E f \in FileSet : \E source \in SeqToSet(Texts(f)) : WriteFile(f, source)
    \/ \E use_cache \in BOOLEAN : StartRun(use_cache)
    \/ CheckCache
    \/ \E j \in 1..Len(PythonFiles) : ParseOne(j)
    \/ UpdateCache
    \/ SaveCache
    \/ Construct

PipelineSpec == PipelineInit /\ [][PipelineNext]_vars

-----------------------------------------------------------------------------
(* parser.rs, graph.rs, utils.rs: `from .x import y` made absolute *)

\* parser.rs; the caller passes level > 0 only.
resolve_relative_module_as_plain_module(current_module, level, file_name) ==
    LET parts == current_module
        base_level == level
    IN IF base_level >= Len(parts) THEN EmptyStr
       ELSE SubSeq(parts, 1, Len(parts) - base_level)

resolve_relative_module(current_module, level, file_name) ==
    LET is_package == file_name = "__init__.py"
        parts == current_module
        base_level == IF is_package THEN level - 1 ELSE level
    IN IF base_level >= Len(parts) THEN EmptyStr
       ELSE SubSeq(parts, 1, Len(parts) - base_level)

\* parser.rs, extract_from_statements: the imported_item of a relative import
parser_imported_item(module_path, file_name, level, from_module, name) ==
    LET base_module == resolve_relative_module(module_path, level, file_name)
    IN IF IsSome(from_module)
       THEN Dot(Dot(base_module, Unwrap(from_module)), name)
       ELSE Dot(base_module, name)

\* graph.rs
resolve_relative_import(current_module, level, relative_module, is_package) ==
    LET parts == current_module
    IN IF level = 0 \/ level > Len(parts) THEN None
       ELSE
         LET levels_to_remove == IF is_package THEN SaturatingSub(level, 1)
                                 ELSE level
         IN IF levels_to_remove > Len(parts) THEN None
            ELSE
              LET base_parts == SubSeq(parts, 1, Len(parts) - levels_to_remove)
                  base == IF base_parts = <<>> THEN None ELSE Some(base_parts)
              IN CASE IsSome(base) /\ IsSome(relative_module) ->
                        Some(Dot(Unwrap(base), Unwrap(relative_module)))
                   [] IsSome(base) /\ ~IsSome(relative_module) -> base
                   [] ~IsSome(base) /\ IsSome(relative_module) -> relative_module
                   [] OTHER -> None

\* graph.rs, InheritanceGraph::build, Import::RelativeFrom: the module or the
\* member the name is bound to, None when the import is dropped
graph_imported_item(module_path, is_package, level, from_module, name) ==
    LET abs_module == resolve_relative_import(module_path, level, from_module,
                                              is_package)
    IN IF IsSome(abs_module) THEN Some(Dot(Unwrap(abs_module), name)) ELSE None

\* utils.rs, resolve_name on the name the statement binds
utils_imported_item(module_path, is_package, level, from_module, name) ==
    resolve_name(name, <<ImportRelativeFrom(level, from_module, <<Name(name)>>)>>,
                 module_path, is_package)

MaxDepth == 3
MaxLevel == 4
PathAtoms == <<"a", "b", "c", "d", "e">>
FromModules == {None, Some(<<"m">>), Some(<<"m", "n">>)}

\* A statement `from <level dots><module> import A` in a file, not yet
\* normalised by anyone.
Statements ==
    {[module_path |-> SubSeq(PathAtoms, 1, depth), file_name |-> file_name,
      level |-> level, module |-> from_module, name |-> A,
      parser |-> None, graph |-> None, utils |-> None] :
        depth \in 1..MaxDepth, file_name \in {"__init__.py", "mod.py"},
        level \in 1..MaxLevel, from_module \in FromModules}

NormaliseInit ==
    /\ pc = "add"
    /\ files = {}
    /\ registry = ClassRegistry_new
    /\ graph = InheritanceGraph_new
    /\ call = NoCall
    /\ PipelineIdle
    /\ stmt \in Statements
    /\ threads = NoThreads
    /\ order = <<>>

\* parser.rs:113, ParsedFile.is_package
IsPackageFile == stmt.file_name = "__init__.py"

ParserNormalise ==
    /\ stmt.parser = None
    /\ stmt' = [stmt EXCEPT !.parser =
                  Some(parser_imported_item(stmt.module_path, stmt.file_name,
                                            stmt.level, stmt.module, stmt.name))]
    /\ UNCHANGED <<finder, pipeline, threads, order>>

GraphNormalise ==
    /\ stmt.graph = None
    /\ stmt' = [stmt EXCEPT !.graph =
                  Some(graph_imported_item(stmt.module_path, IsPackageFile,
                                           stmt.level, stmt.module, stmt.name))]
    /\ UNCHANGED <<finder, pipeline, threads, order>>

UtilsNormalise ==
    /\ stmt.utils = None
    /\ stmt' = [stmt EXCEPT !.utils =
                  Some(utils_imported_item(stmt.module_path, IsPackageFile,
                                           stmt.level, stmt.module, stmt.name))]
    /\ UNCHANGED <<finder, pipeline, threads, order>>

NormaliseNext ==
    \/ ParserNormalise
    \/ GraphNormalise
    \/ UtilsNormalise

NormaliseSpec == NormaliseInit /\ [][NormaliseNext]_vars

-----------------------------------------------------------------------------
(* lib.rs: Registry::build and InheritanceGraph::build on a list of         *)
(* ParsedFile records, in the order of the list                             *)

\* The lists discovery and parsing can hand over: up to MaxFiles records, at
\* most one per file path.
FileOrders ==
    {fs \in UNION {[1..n -> ParsedFiles] : n \in 0..MaxFiles} :
        \A i, j \in 1..Len(fs) : fs[i].file_path = fs[j].file_path => i = j}

OrderInit ==
    /\ pc = "add"
    /\ files = {}
    /\ registry = ClassRegistry_new
    /\ graph = InheritanceGraph_new
    /\ call = NoCall
    /\ PipelineIdle
    /\ stmt = NoStatement
    /\ threads = NoThreads
    /\ order \in FileOrders

\* lib.rs:151-154
BuildFromList ==
    /\ pc = "add"
    /\ files' = {order[i].file_path : i \in 1..Len(order)}
    /\ registry' = Registry_build(order)
    /\ graph' = InheritanceGraph_build(Registry_build(order), order)
    /\ pc' = "ready"
    /\ UNCHANGED <<call, pipeline, stmt, threads, order>>

OrderNext == BuildFromList

OrderSpec == OrderInit /\ [][OrderNext]_vars

-----------------------------------------------------------------------------
(* graph.rs, registry.rs: queries of several threads on one built finder.   *)
(* Each call has its own locals (queue, visited, result; current, visited)  *)
(* and reads the registry and the graph through a shared reference.         *)

\* Mutant: the front of the queue is read but left in the queue.
bfs_step_keeps_current(edges, s) ==
    visit_neighbours(UnwrapOr(Get(edges, Head(s.queue)), <<>>), 1, s)

\* One iteration of `while let Some(current) = queue.pop_front()`.
bfs_step(edges, s) ==
    visit_neighbours(UnwrapOr(Get(edges, Head(s.queue)), <<>>), 1,
                     [s EXCEPT !.queue = Tail(s.queue)])

TraversalOps == {"find_all_subclasses", "find_all_parent_classes"}

Traversing(ths) == {t \in Threads : ths[t].op \in TraversalOps}

\* Mutant: one visited set serves every traversal in progress.
shared_locals(ths, t) ==
    [ths[t].s EXCEPT !.visited = UNION {ths[u].s.visited : u \in Traversing(ths)}]

\* let mut result, visited, queue: the locals of the traversal of thread t
own_locals(ths, t) == ths[t].s

\* Source trees with a diamond (D under B and C under A), with an inheritance
\* cycle across modules (r.A and p.s.B) next to a self-base, and with a
\* re-export chain and an import cycle.
DiamondTree ==
    <<File("p/q.py", PQ, FALSE, <<>>, << <<A, <<>>>> >>),
      File("r.py", R, FALSE, <<ImportFrom(PQ, <<Name(A)>>)>>,
           << <<B, <<Simple(A)>>>>, <<C, <<Simple(A)>>>> >>),
      File("p/s.py", PS, FALSE, <<ImportFrom(R, <<Name(B), Name(C)>>)>>,
           << <<D, <<Simple(B), Simple(C)>>>> >>)>>

CycleTree ==
    <<File("r.py", R, FALSE, <<ImportFrom(PS, <<Name(B)>>)>>,
           << <<A, <<Simple(B)>>>> >>),
      File("p/s.py", PS, FALSE, <<ImportFrom(R, <<Name(A)>>)>>,
           << <<B, <<Simple(A)>>>> >>),
      File("p/__init__.py", P, TRUE,
           <<ImportRelativeFrom(1, Some(<<"q">>), <<Name(A)>>)>>,
           << <<A, <<Simple(A)>>>> >>)>>

ReexportTree ==
    <<File("p/q.py", PQ, FALSE, <<>>, << <<A, <<>>>> >>),
      File("p/__init__.py", P, TRUE,
           <<ImportRelativeFrom(1, Some(<<"q">>), <<Name(A)>>)>>, <<>>),
      File("r.py", R, FALSE, <<ImportFrom(P, <<Name(A)>>)>>,
           << <<B, <<Simple(A)>>>> >>)>>

ThreadTrees == {fs \in FileOrders : fs \in {DiamondTree, CycleTree, ReexportTree}}

ThreadInit ==
    /\ \E fs \in ThreadTrees :
          /\ order = fs
          /\ files = {fs[i].file_path : i \in 1..Len(fs)}
          /\ registry = Registry_build(fs)
          /\ graph = InheritanceGraph_build(Registry_build(fs), fs)
    /\ pc = "ready"
    /\ call = NoCall
    /\ PipelineIdle
    /\ stmt = NoStatement
    /\ threads = NoThreads

\* Thread t enters find_all_subclasses or find_all_parent_classes.
StartTraversal(t, op, root) ==
    /\ threads[t] = Idle
    /\ threads' = [threads EXCEPT ![t] =
                     [op |-> op, root |-> root, status |-> "loop",
                      s |-> [queue |-> <<root>>, visited |-> {root},
                             result |-> <<>>],
                      popped |-> <<>>]]
    /\ UNCHANGED <<finder, pipeline, stmt, order>>

\* Thread t runs one iteration of the loop, or leaves it on an empty queue.
TraversalStep(t) ==
    /\ threads[t].op \in TraversalOps
    /\ threads[t].status = "loop"
    /\ LET edges == IF threads[t].op = "find_all_subclasses"
                    THEN graph.class_children ELSE graph.class_parents
           s == own_locals(threads, t)
       IN IF s.queue = <<>>
          THEN threads' = [threads EXCEPT ![t].status = "done"]
          ELSE threads' = [threads EXCEPT
                             ![t].s = bfs_step(edges, s),
                             ![t].popped = IF Len(@) > Cardinality(graph.classes)
                                           THEN @ ELSE Append(@, Head(s.queue))]
    /\ UNCHANGED <<finder, pipeline, stmt, order>>

\* Thread t enters resolve_through_reexports ...
StartResolve(t, id) ==
    /\ threads[t] = Idle
    /\ threads' = [threads EXCEPT ![t] =
                     [op |-> "resolve_through_reexports", id |-> id,
                      walk |-> reexport_walk_start(id)]]
    /\ UNCHANGED <<finder, pipeline, stmt, order>>

\* ... and runs one iteration of its loop.
ResolveStep(t) ==
    /\ threads[t].op = "resolve_through_reexports"
    /\ threads[t].walk.status = "loop"
    /\ threads' = [threads EXCEPT ![t].walk = reexport_walk_step(registry, @)]
    /\ UNCHANGED <<finder, pipeline, stmt, order>>

Finished(t) ==
    \/ threads[t].op \in TraversalOps /\ threads[t].status = "done"
    \/ threads[t].op = "resolve_through_reexports" /\ threads[t].walk.status = "done"

\* The call of thread t returns.
Finish(t) ==
    /\ Finished(t)
    /\ threads' = [threads EXCEPT ![t] = Idle]
    /\ UNCHANGED <<finder, pipeline, stmt, order>>

ThreadNext ==
    \E t \in Threads :
       \/ \E op \in TraversalOps, root \in graph.classes : StartTraversal(t, op, root)
       \/ TraversalStep(t)
       \/ \E id \in WalkIds : StartResolve(t, id)
       \/ ResolveStep(t)
       \/ Finish(t)

\* Every thread that is inside a call gets to run.
ThreadSpec ==
    /\ ThreadInit
    /\ [][ThreadNext]_vars
    /\ \A t \in Threads : WF_vars(TraversalStep(t)) /\ WF_vars(ResolveStep(t))

-----------------------------------------------------------------------------
(* Vocabulary of the claims *)

\* The registry and the graph are complete and no call is in progress.
Built == pc = "ready" /\ call = NoCall

\* The local names the imports of a module bind, one entry per binding.
RECURSIVE BoundNames(_, _)
BoundNames(imps, i) ==
    IF i > Len(imps) THEN <<>>
    ELSE (IF imps[i].kind = "Module"
          THEN <<UnwrapOr(imps[i].alias, imps[i].module)>>
          ELSE [j \in 1..Len(imps[i].names) |->
                  UnwrapOr(imps[i].names[j][2], imps[i].names[j][1])])
         \o BoundNames(imps, i + 1)

BindingCount(reg, m, name) ==
    LET bound == BoundNames(reg.imports[m], 1)
    IN Cardinality({i \in 1..Len(bound) : bound[i] = name})

\* Module m imports `name` from module src under the same name, and this is the
\* only import of m that binds the name.
ImportsFrom(reg, m, src, name) ==
    /\ m \in DOMAIN reg.imports
    /\ BindingCount(reg, m, name) = 1
    /\ resolve_name(name, reg.imports[m], m, m \in reg.packages)
         = Some(Dot(src, name))

\* The modules at the end of a re-export chain of exactly n imports that
\* starts at the defining module d.
RECURSIVE ChainLevel(_, _, _, _)
ChainLevel(reg, d, name, n) ==
    IF n = 0 THEN {d}
    ELSE LET sources == ChainLevel(reg, d, name, n - 1)
         IN {m \in DOMAIN reg.imports :
               \E src \in sources : ImportsFrom(reg, m, src, name)}

\* Class `name` is defined in d, and resolving it against d yields (d, name).
Defines(reg, d, name) ==
    /\ ClassId(d, name) \in DOMAIN reg.classes
    /\ resolve_class(reg, d, name) = Some(ClassId(d, name))

ChainDepths == 1..(MaxFiles + 1)

-----------------------------------------------------------------------------
(* Import cycles *)

\* Module m is on a cycle of imports of `name`: following the imports that
\* bind the name leads from m back to m (length 1: m imports it from itself).
OnImportCycle(reg, m, name) ==
    \E n \in ChainDepths : m \in ChainLevel(reg, m, name, n)

\* C2: resolving a name in the context of a module that lies on a cycle of
\* imports of that name (A imports it from B and B from A, or a module imports
\* it from itself) ends and yields None.
C2_ImportCycleYieldsNone ==
    Built =>
       \A m \in DOMAIN registry.imports, name \in ClassNames :
          OnImportCycle(registry, m, name)
             => resolve_class(registry, m, name) = None

-----------------------------------------------------------------------------
(* The graph *)

Children(g, id) == SeqToSet(find_direct_subclasses(g, id))
Parents(g, id) == SeqToSet(find_direct_parent_classes(g, id))

NoDuplicates(s) == \A i, j \in 1..Len(s) : s[i] = s[j] => i = j

\* The bases of a registered class that resolve, as ClassIds.
ResolvedBases(reg, id) ==
    LET bases == reg.classes[id].bases
    IN {Unwrap(resolve_base(reg, bases[i], id.module_path)) :
          i \in {j \in 1..Len(bases) :
                    IsSome(resolve_base(reg, bases[j], id.module_path))}}

GraphNodes == graph.classes \cup DOMAIN graph.class_children
                 \cup DOMAIN graph.class_parents

\* C3: once the graph is built, every base of a registered class C that
\* resolves to a class B makes B a direct parent of C and C a direct subclass
\* of B, and the children map and the parents map are inverses of each other.
C3_EdgeSymmetry ==
    Built =>
       /\ \A id \in DOMAIN registry.classes :
             \A b \in ResolvedBases(registry, id) :
                /\ b \in Parents(graph, id)
                /\ id \in Children(graph, b)
       /\ \A x \in GraphNodes, y \in GraphNodes :
             y \in Children(graph, x) <=> x \in Parents(graph, y)

\* C3 witness: the graph is built and a class has two direct parents.
C3_Witness ==
    /\ pc = "ready"
    /\ \E id \in DOMAIN registry.classes :
          /\ Cardinality(ResolvedBases(registry, id)) = 2
          /\ Cardinality(Parents(graph, id)) = 2

\* The classes reached from the set S by zero or more direct-subclass steps.
RECURSIVE SubclassClosure(_, _)
SubclassClosure(g, S) ==
    LET next == S \cup UNION {Children(g, id) : id \in S}
    IN IF next = S THEN S ELSE SubclassClosure(g, next)

\* The classes reached from root by one or more direct-subclass steps.
Descendants(g, root) == SubclassClosure(g, Children(g, root))

RECURSIVE ParentClosure(_, _)
ParentClosure(g, S) ==
    LET next == S \cup UNION {Parents(g, id) : id \in S}
    IN IF next = S THEN S ELSE ParentClosure(g, next)

Ancestors(g, root) == ParentClosure(g, Parents(g, root))

\* The ClassIds of a list of ClassReferences.
RefIds(refs) == {ClassId(refs[i].module_path, refs[i].class_name) : i \in 1..Len(refs)}

\* The class a finished query was about.
CallTarget == resolve_target_class(registry, call.class_name, call.module_path)

\* C4 as stated: find_all_subclasses(C) holds every class reachable from C by
\* one or more direct-subclass steps, nothing else, each class once.
C4_AllSubclassesIsReachableSet ==
    Built =>
       \A root \in graph.classes :
          LET result == find_all_subclasses(graph, root)
          IN /\ SeqToSet(result) = Descendants(graph, root)
             /\ NoDuplicates(result)

\* C4 (amended): find_all_subclasses(C) holds every class other than C that is
\* reachable from C by one or more direct-subclass steps, nothing else, each
\* class once; the list an All query returns holds exactly these classes.
C4_AllSubclassesIsReachableSetButRoot ==
    /\ Built =>
          \A root \in graph.classes :
             LET result == find_all_subclasses(graph, root)
             IN /\ SeqToSet(result) = Descendants(graph, root) \ {root}
                /\ NoDuplicates(result)
    /\ (/\ pc = "ready"
        /\ call.op = "find_subclasses"
        /\ call.mode = "All"
        /\ call.result.ok)
       => /\ RefIds(call.result.value) = Descendants(graph, CallTarget.value) \ {CallTarget.value}
          /\ NoDuplicates(call.result.value)

\* C4 witness: an All query on the top of a diamond returned three classes,
\* the bottom one reachable along two paths.
C4_Witness ==
    /\ pc = "ready"
    /\ call.op = "find_subclasses"
    /\ call.mode = "All"
    /\ call.result.ok
    /\ Len(call.result.value) = 3
    /\ \E id \in RefIds(call.result.value) :
          /\ Cardinality(Parents(graph, id)) = 2
          /\ Parents(graph, id) \subseteq Children(graph, CallTarget.value)

\* C5: neither find_all_subclasses(root) nor find_all_parent_classes(root)
\* contains root, also when root is reachable from itself; the list an All
\* query returns does not contain the class asked about.
C5_RootNotInResult ==
    /\ Built =>
          \A root \in graph.classes :
             /\ ~Contains(find_all_subclasses(graph, root), root)
             /\ ~Contains(find_all_parent_classes(graph, root), root)
    /\ (/\ pc = "ready"
        /\ call.op \in {"find_subclasses", "find_parent_classes"}
        /\ call.mode = "All"
        /\ call.result.ok)
       => CallTarget.value \notin RefIds(call.result.value)

\* C5 witness: an All query on a class that is its own descendant returned.
C5_Witness ==
    /\ pc = "ready"
    /\ call.op = "find_subclasses"
    /\ call.mode = "All"
    /\ call.result.ok
    /\ CallTarget.value \in Descendants(graph, CallTarget.value)
    /\ CallTarget.value \notin RefIds(call.result.value)

-----------------------------------------------------------------------------
(* Queries by name *)

IsQuery == pc = "ready" /\ call.op \in {"find_subclasses", "find_parent_classes"}

\* The modules that define a class of the given name.
DefiningModules(reg, class_name) ==
    {id.module_path : id \in {k \in DOMAIN reg.classes : k.class_name = class_name}}

\* The answer of the query in progress, asked again with another module.
Requery(module_path) ==
    IF call.op = "find_subclasses"
    THEN find_subclasses(registry, graph, call.class_name, module_path, call.mode)
    ELSE find_parent_classes(registry, graph, call.class_name, module_path, call.mode)

\* C6: a query by bare name without module, when two or more registered
\* classes have that name, fails with AmbiguousClassName whose candidates are
\* exactly the modules defining a class of that name, and the same query with
\* any one candidate as module succeeds.
C6_AmbiguousThenQualifiedSucceeds ==
    (/\ IsQuery
     /\ call.module_path = None
     /\ Cardinality(DefiningModules(registry, call.class_name)) >= 2)
    => /\ ~call.result.ok
       /\ call.result.error.kind = "AmbiguousClassName"
       /\ call.result.error.name = call.class_name
       /\ SeqToSet(call.result.error.candidates)
             = DefiningModules(registry, call.class_name)
       /\ NoDuplicates(call.result.error.candidates)
       /\ \A i \in 1..Len(call.result.error.candidates) :
             Requery(Some(call.result.error.candidates[i])).ok

ReexportQueryAnswered(n, mode, package) ==
    /\ pc = "ready"
    /\ call.op = "find_subclasses"
    /\ call.mode = mode
    /\ call.module_path # None
    /\ (Unwrap(call.module_path) \in registry.packages) = package
    /\ call.result.ok
    /\ call.result.value # <<>>
    /\ \E d \in DOMAIN registry.imports :
          /\ d # Unwrap(call.module_path)
          /\ Defines(registry, d, call.class_name)
          /\ Unwrap(call.module_path) \in ChainLevel(registry, d, call.class_name, n)
          /\ ClassId(Unwrap(call.module_path), call.class_name)
                \notin DOMAIN registry.classes

C7_WitnessPackage == ReexportQueryAnswered(1, "Direct", TRUE)

\* C8: a query by bare name without module succeeds when exactly one
\* registered class has that name, however many modules import or re-export
\* the name; the answer is the one for that class.
C8_UniqueNameNotAmbiguous ==
    (/\ IsQuery
     /\ call.module_path = None
     /\ Cardinality(DefiningModules(registry, call.class_name)) = 1)
    => /\ call.result.ok
       /\ \A d \in DefiningModules(registry, call.class_name) :
             LET id == ClassId(d, call.class_name)
             IN RefIds(call.result.value) =
                  (IF call.op = "find_subclasses"
                   THEN IF call.mode = "Direct" THEN Children(graph, id)
                        ELSE Descendants(graph, id) \ {id}
                   ELSE IF call.mode = "Direct" THEN Parents(graph, id)
                        ELSE Ancestors(graph, id) \ {id})

\* C8 witness: the name is defined once and re-exported by two other modules,
\* and the query without module was answered.
C8_Witness ==
    /\ IsQuery
    /\ call.module_path = None
    /\ Cardinality(DefiningModules(registry, call.class_name)) = 1
    /\ Cardinality({k \in DOMAIN registry.re_exports :
                       k.class_name = call.class_name}) = 2
    /\ call.result.ok
    /\ call.result.value # <<>>

\* C9: a query for a bare name no registered class has fails with ClassNotFound
\* carrying the name and no module; a query with a module for which the
\* resolution of (module, name) yields nothing fails with ClassNotFound
\* carrying the name and the module; neither returns a list.
C9_ClassNotFound ==
    /\ (/\ IsQuery
        /\ call.module_path = None
        /\ DefiningModules(registry, call.class_name) = {})
       => call.result = Err(ClassNotFound(call.class_name, None))
    /\ (/\ IsQuery
        /\ call.module_path # None
        /\ resolve_class(registry, Unwrap(call.module_path), call.class_name) = None)
       => call.result = Err(ClassNotFound(call.class_name, call.module_path))

\* C9 witness: a query naming a module that is indexed but neither defines nor
\* imports the class, defined twice elsewhere, ended with ClassNotFound.
C9_Witness ==
    /\ IsQuery
    /\ call.module_path # None
    /\ Unwrap(call.module_path) \in DOMAIN registry.imports
    /\ BindingCount(registry, Unwrap(call.module_path), call.class_name) = 0
    /\ Unwrap(call.module_path) \notin DefiningModules(registry, call.class_name)
    /\ Cardinality(DefiningModules(registry, call.class_name)) = 2
    /\ call.result = Err(ClassNotFound(call.class_name, call.module_path))

\* C9, the query without module
C9_WitnessBareName ==
    /\ IsQuery
    /\ call.module_path = None
    /\ DOMAIN registry.classes # {}
    /\ call.result = Err(ClassNotFound(call.class_name, None))

\* The positions of the bases of a registered class that do not resolve.
UnresolvedBases(reg, id) ==
    {i \in 1..Len(reg.classes[id].bases) :
        resolve_base(reg, reg.classes[id].bases[i], id.module_path) = None}

-----------------------------------------------------------------------------
(* Order of the output *)

Reverse(s) == [i \in 1..Len(s) |-> s[Len(s) + 1 - i]]

\* The ClassIds a finished query hands to the conversion, in traversal order.
CallIds ==
    IF call.op = "find_subclasses"
    THEN IF call.mode = "Direct" THEN find_direct_subclasses(graph, CallTarget.value)
         ELSE find_all_subclasses(graph, CallTarget.value)
    ELSE IF call.mode = "Direct" THEN find_direct_parent_classes(graph, CallTarget.value)
         ELSE find_all_parent_classes(graph, CallTarget.value)

\* (module_path, class_name) of a comes strictly before that of b.
KeyBefore(a, b) ==
    \/ StrLess(a.module_path, b.module_path)
    \/ a.module_path = b.module_path /\ StrLess(a.class_name, b.class_name)

\* C11: the list a query returns is strictly ascending by (module_path,
\* class_name), so no pair is repeated, and it is the same list when the
\* traversal delivers the classes in the opposite order.
C11_SortedNoRepeats ==
    (IsQuery /\ call.result.ok)
    => /\ \A i, j \in 1..Len(call.result.value) :
             i < j => KeyBefore(call.result.value[i], call.result.value[j])
       /\ sorted_references(graph, Reverse(CallIds)) = call.result.value

\* C11 witness: a query returned three classes that the traversal found in
\* another order than the one returned.
C11_Witness ==
    /\ IsQuery
    /\ call.result.ok
    /\ Len(call.result.value) = 3
    /\ to_references(graph, CallIds, 1) # call.result.value

-----------------------------------------------------------------------------
(* The cache *)

\* What a run without cache makes of the source tree as it is now.
ColdResults == [i \in 1..Len(PythonFiles) |->
                  parse_one(PythonFiles[i], disk[PythonFiles[i]].source)]
ColdParsed == collect_parsed(ColdResults, 1)
ColdRegistry == Registry_build(ColdParsed)
ColdGraph == InheritanceGraph_build(ColdRegistry, ColdParsed)

\* The finder answers every query as the finder of a cold run on the tree as
\* it is now.
AnswersAsColdRun ==
    \A n \in ClassNames, m \in QueryModules, mode \in SearchModes :
       /\ find_subclasses(registry, graph, n, m, mode)
            = find_subclasses(ColdRegistry, ColdGraph, n, m, mode)
       /\ find_parent_classes(registry, graph, n, m, mode)
            = find_parent_classes(ColdRegistry, ColdGraph, n, m, mode)

\* A run with cache has finished, the run before it was a run with cache, and
\* no file was written since that earlier run began.
SecondCachedRunDone ==
    /\ run.pc = "done"
    /\ run.use_cache
    /\ prev.finished
    /\ prev.use_cache
    /\ prev.clock_start = clock

\* C12: a run with cache followed by a second run with cache, the files'
\* modification times and sizes unchanged, answers every query as a run
\* without cache does.
C12_CacheRoundTrip == SecondCachedRunDone => AnswersAsColdRun

-----------------------------------------------------------------------------
(* Files that fail to parse *)

\* The files whose parse failed in the run, and the ParsedFiles it obtained.
FailedFiles == {run.results[i].error.file :
                  i \in {j \in 1..Len(run.results) : ~run.results[j].ok}}
ObtainedFiles == {run.results[i].value :
                    i \in {j \in 1..Len(run.results) : run.results[j].ok}}

-----------------------------------------------------------------------------
(* Relative imports *)

\* The number of trailing components the rule removes from the module path of
\* the statement, the base it leaves, and the item it names.
RuleRemoved == IF stmt.file_name = "__init__.py" THEN stmt.level - 1 ELSE stmt.level
RuleBase == [i \in 1..(Len(stmt.module_path) - RuleRemoved) |-> stmt.module_path[i]]
RuleItem == RuleBase \o (IF stmt.module = None THEN <<>> ELSE stmt.module[1])
                     \o stmt.name

\* C14: a relative import of level L in module p has as base p without its
\* last L-1 components in a package and without its last L components in a
\* plain module, and names base.from-module.name; where this base is not empty
\* the parser, the graph and utils all produce that item.
C14_RelativeImportRule ==
    (stmt.level >= 1 /\ RuleRemoved < Len(stmt.module_path))
    => /\ stmt.parser # None => stmt.parser = Some(RuleItem)
       /\ stmt.graph # None => stmt.graph = Some(Some(RuleItem))
       /\ stmt.utils # None => stmt.utils = Some(Some(RuleItem))
       /\ resolve_relative_module(stmt.module_path, stmt.level, stmt.file_name)
            = RuleBase
       /\ resolve_relative_import_base(stmt.module_path, stmt.level,
                                       IsPackageFile) = Some(RuleBase)

\* C14 witness: all three have normalised `from ..m import A` written in the
\* package a.b.c, and `from .m import A` written in the plain module a.b.
C14_Witness ==
    /\ stmt.level = 2
    /\ stmt.file_name = "__init__.py"
    /\ stmt.module_path = <<"a", "b", "c">>
    /\ stmt.module = Some(<<"m">>)
    /\ stmt.parser = Some(<<"a", "b", "m", "A">>)
    /\ stmt.graph = Some(stmt.parser)
    /\ stmt.utils = Some(stmt.parser)

C14_WitnessPlainModule ==
    /\ stmt.level = 1
    /\ stmt.file_name = "mod.py"
    /\ stmt.module_path = <<"a", "b">>
    /\ stmt.parser = Some(<<"a", "m", "A">>)
    /\ stmt.graph = Some(stmt.parser)
    /\ stmt.utils = Some(stmt.parser)

-----------------------------------------------------------------------------
(* File paths of the references *)

\* The file the registry recorded the class from: the file that defines it
\* (the one indexed last, should two files of one module define the name).
DefinedIn(id) == registry.classes[id].file_path

\* C15: every ClassReference a query returns carries the path of the file in
\* which its class is defined, also when two files have the same module path.
C15_FilePathIsDefiningFile ==
    (IsQuery /\ call.result.ok)
    => \A i \in 1..Len(call.result.value) :
          LET ref == call.result.value[i]
          IN ref.file_path = DefinedIn(ClassId(ref.module_path, ref.class_name))

-----------------------------------------------------------------------------
(* Resolution of a reference *)

\* C16: resolve_class(m, n) is (m, n) whenever (m, n) is a registered class,
\* whatever the imports of m bind.
C16_DefinedClassResolvesToItself ==
    Built => \A id \in DOMAIN registry.classes :
                resolve_class(registry, id.module_path, id.class_name) = Some(id)

\* parser.rs, extract_from_statements: the (imported_item, imported_as) pairs
\* of the imports of module m, in file order.
RECURSIVE NormalisedNames(_, _, _)
NormalisedNames(prefix, names, j) ==
    IF j > Len(names) THEN <<>>
    ELSE <<[imported_item |-> Dot(prefix, names[j][1]),
            imported_as |-> UnwrapOr(names[j][2], names[j][1])]>>
         \o NormalisedNames(prefix, names, j + 1)

RECURSIVE NormalisedImports(_, _, _)
NormalisedImports(reg, m, i) ==
    IF i > Len(reg.imports[m]) THEN <<>>
    ELSE
      LET import == reg.imports[m][i]
          file_name == IF m \in reg.packages THEN "__init__.py" ELSE "mod.py"
          here ==
            CASE import.kind = "Module" ->
                   <<[imported_item |-> import.module,
                      imported_as |-> UnwrapOr(import.alias, import.module)]>>
              [] import.kind = "From" ->
                   NormalisedNames(import.module, import.names, 1)
              [] import.kind = "RelativeFrom" ->
                   [j \in 1..Len(import.names) |->
                      [imported_item |->
                         parser_imported_item(m, file_name, import.level,
                                              import.module, import.names[j][1]),
                       imported_as |-> UnwrapOr(import.names[j][2],
                                                import.names[j][1])]]
      IN here \o NormalisedImports(reg, m, i + 1)

\* imported_as equals the name, or is followed in the name by a dot.
MatchesName(imported_as, name) ==
    /\ Len(imported_as) <= Len(name)
    /\ SubSeq(name, 1, Len(imported_as)) = imported_as

MatchingImports(imps, name) ==
    {i \in 1..Len(imps) : MatchesName(imps[i].imported_as, name)}

\* The name after substitution of the first matching import.
Rewritten(imps, name) ==
    IF MatchingImports(imps, name) = {} THEN name
    ELSE LET first == CHOOSE i \in MatchingImports(imps, name) :
                         \A j \in MatchingImports(imps, name) : i <= j
         IN imps[first].imported_item
              \o SubSeq(name, Len(imps[first].imported_as) + 1, Len(name))

\* C17: for a reference that is not a class of its module, only the first
\* import whose imported_as equals the name or precedes a dot in it is used:
\* the reference resolves as the rewritten name does, and to nothing when the
\* rewritten name resolves to nothing.
C17_FirstMatchingImportOnly ==
    Built =>
      \A id \in DOMAIN registry.classes :
         \A b \in 1..Len(registry.classes[id].bases) :
            LET m == id.module_path
                base == registry.classes[id].bases[b]
                name == base.parts
                imps == NormalisedImports(registry, m, 1)
                rewritten == Rewritten(imps, name)
                result == resolve_base(registry, base, m)
            IN (ClassId(m, name) \notin DOMAIN registry.classes
                /\ MatchingImports(imps, name) # {})
               => /\ Len(rewritten) >= 2 =>
                       LET whole == resolve_through_reexports(registry,
                                      ClassId(SubSeq(rewritten, 1, Len(rewritten) - 1),
                                              <<Last(rewritten)>>))
                       IN IsSome(whole) => result = whole
                  /\ find_class_by_qualified_name(registry, rewritten) = None
                       => result = None

\* The registered modules, and the lengths of the strict prefixes of a dotted
\* name that are registered modules.
RegisteredModules == DOMAIN graph.modules
ModulePrefixes(name) ==
    {n \in 1..(Len(name) - 1) : SubSeq(name, 1, n) \in RegisteredModules}

\* C18: when the name after substitution has a strict prefix that is a
\* registered module, the reference resolves as the remaining suffix does in
\* the longest such module, and to nothing when that yields nothing, also if
\* a shorter prefix is a registered module too.
C18_LongestModulePrefixOnly ==
    Built =>
      \A id \in DOMAIN registry.classes :
         \A b \in 1..Len(registry.classes[id].bases) :
            LET m == id.module_path
                base == registry.classes[id].bases[b]
                name == base.parts
                rewritten == Rewritten(NormalisedImports(registry, m, 1), name)
                prefixes == ModulePrefixes(rewritten)
            IN (ClassId(m, name) \notin DOMAIN registry.classes /\ prefixes # {})
               => LET longest == CHOOSE n \in prefixes : \A k \in prefixes : k <= n
                  IN resolve_base(registry, base, m)
                       = resolve_class(registry, SubSeq(rewritten, 1, longest),
                                       SubSeq(rewritten, longest + 1, Len(rewritten)))

\* The references whose name, after substitution, is as a whole a registered
\* module of which no strict prefix is a registered module.
ModuleReferences ==
    {<<id, b>> \in (DOMAIN registry.classes) \X (1..4) :
        /\ b <= Len(registry.classes[id].bases)
        /\ LET name == registry.classes[id].bases[b].parts
               rewritten == Rewritten(NormalisedImports(registry, id.module_path, 1),
                                      name)
           IN /\ ClassId(id.module_path, name) \notin DOMAIN registry.classes
              /\ rewritten \in RegisteredModules
              /\ ModulePrefixes(rewritten) = {}}

C20_NoModulePrefixYieldsNone ==
    Built =>
      \A id \in DOMAIN registry.classes :
         \A b \in 1..Len(registry.classes[id].bases) :
            LET m == id.module_path
                base == registry.classes[id].bases[b]
                name == base.parts
                rewritten == Rewritten(NormalisedImports(registry, m, 1), name)
            IN (ClassId(m, name) \notin DOMAIN registry.classes
                /\ ModulePrefixes(rewritten) = {})
               => resolve_base(registry, base, m) = None

-----------------------------------------------------------------------------
(* Edges of the built graph *)

\* The pairs (parent, child) entered in the children map of the graph.
Edges(g) == {<<p, c>> \in GraphNodes \X GraphNodes : c \in Children(g, p)}

\* The pairs (parent, child) such that some base string of the registered
\* class child resolves, in the module of child, to parent.
BaseEdges(reg) ==
    UNION {{<<p, c>> : p \in ResolvedBases(reg, c)} : c \in DOMAIN reg.classes}

\* C21: the built graph has the edge parent -> child exactly when some base
\* string of the registered class child resolves to parent.
C21_EdgesAreResolvedBases == Built => Edges(graph) = BaseEdges(registry)

\* C21 witness: a built graph with three edges or more, over classes of which
\* one has a base that resolves and a base that does not.
C21_Witness ==
    /\ Built
    /\ Cardinality(Edges(graph)) >= 3
    /\ \E c \in DOMAIN registry.classes :
          /\ UnresolvedBases(registry, c) # {}
          /\ ResolvedBases(registry, c) # {}

\* C22: the children of a class and the parents of a class hold each
\* neighbour once, and so does the list a Direct query returns, also when a
\* class lists a base twice or two of its base strings resolve to one class.
C22_NeighbourOnce ==
    /\ Built =>
          \A id \in GraphNodes :
             /\ NoDuplicates(find_direct_subclasses(graph, id))
             /\ NoDuplicates(find_direct_parent_classes(graph, id))
    /\ (IsQuery /\ call.mode = "Direct" /\ call.result.ok) =>
          /\ NoDuplicates(call.result.value)
          /\ Len(call.result.value) = Cardinality(RefIds(call.result.value))
          /\ (call.op = "find_parent_classes"
              /\ CallTarget.value \in DOMAIN registry.classes)
             => Len(call.result.value)
                  = Cardinality(ResolvedBases(registry, CallTarget.value))

\* The positions of the bases of a class that resolve to the class `parent`.
BasesResolvingTo(reg, id, parent) ==
    {i \in 1..Len(reg.classes[id].bases) :
        resolve_base(reg, reg.classes[id].bases[i], id.module_path) = Some(parent)}

\* C22 witness: the direct parents of r.D were asked for; its bases Z, Z and
\* x.A, a repeated name and another string, all resolve to p.q.A, which was
\* returned once.
C22_Witness ==
    /\ IsQuery
    /\ call.op = "find_parent_classes"
    /\ call.mode = "Direct"
    /\ call.result.ok
    /\ CallTarget.value = ClassId(R, D)
    /\ ClassId(R, D) \in DOMAIN registry.classes
    /\ BasesResolvingTo(registry, ClassId(R, D), ClassId(PQ, A)) = {2, 3, 4}
    /\ Len(call.result.value) = 1
    /\ find_direct_subclasses(graph, ClassId(PQ, A))
         = <<ClassId(R, B), ClassId(R, C), ClassId(R, D)>>

-----------------------------------------------------------------------------
(* Order of the ParsedFile records *)

\* The same records in another order.
IndexOrders(n) ==
    {p \in [1..n -> 1..n] : \A i, j \in 1..n : p[i] = p[j] => i = j}
Reordered(fs, p) == [i \in 1..Len(fs) |-> fs[p[i]]]

\* The answers of a finder to every query.
Answers(reg, g) ==
    [q \in ClassNames \X QueryModules \X SearchModes |->
       <<find_subclasses(reg, g, q[1], q[2], q[3]),
         find_parent_classes(reg, g, q[1], q[2], q[3])>>]

AnswersOfList(fs) ==
    LET reg == Registry_build(fs)
    IN Answers(reg, InheritanceGraph_build(reg, fs))

\* C29: the finder built from a list of ParsedFile records answers every
\* query as the finder built from the same records in any other order does,
\* file paths included, also when two records have the same module path.
C29_OrderIndependent ==
    pc = "ready" =>
       \A p \in IndexOrders(Len(order)) :
          AnswersOfList(Reordered(order, p)) = Answers(registry, graph)

InLoop(t) == threads[t].op \in TraversalOps /\ threads[t].status = "loop"

\* C23: find_all_subclasses and find_all_parent_classes terminate on every
\* graph, a graph with an inheritance cycle across modules included, and take
\* each class at most once from the queue.
C23_TerminatesVisitingOnce ==
    \A t \in Threads :
       /\ [](threads[t].op \in TraversalOps =>
                /\ NoDuplicates(threads[t].popped)
                /\ NoDuplicates(threads[t].s.result)
                /\ threads[t].s.queue # <<>> =>
                      ~ Contains(threads[t].popped, Head(threads[t].s.queue)))
       /\ InLoop(t) ~> ~ InLoop(t)

\* A traversal from r.A, which lies on the cycle r.A -> p.s.B -> r.A, is over.
C23_Witness ==
    /\ order = CycleTree
    /\ ClassId(PS, B) \in Children(graph, ClassId(R, A))
    /\ ClassId(R, A) \in Children(graph, ClassId(PS, B))
    /\ \E t \in Threads :
          /\ threads[t].op = "find_all_subclasses"
          /\ threads[t].root = ClassId(R, A)
          /\ threads[t].status = "done"
          /\ threads[t].popped = <<ClassId(R, A), ClassId(PS, B)>>
          /\ threads[t].s.result = <<ClassId(PS, B)>>

ResultFile(result) ==
    IF result.ok THEN result.value.file_path ELSE result.error.file

ResultsInInputOrder ==
    /\ Len(run.results) = Len(PythonFiles)
    /\ \A i \in 1..Len(PythonFiles) : ResultFile(run.results[i]) = PythonFiles[i]

\* C24: the list of parse results handed to the construction of the registry
\* has one entry per discovered file and its i-th entry is the result for the
\* i-th file, without the cache under any scheduling of the workers and with
\* the cache for any mix of hits and misses.
C24_ResultsInInputOrder ==
    run.pc \in {"collect", "done"} => ResultsInInputOrder

\* The part of C24 about parse_files alone.
C24_UncachedInInputOrder ==
    (run.pc \in {"collect", "done"} /\ ~run.use_cache) => ResultsInInputOrder

\* The dots of the statement climb exactly to the top of its module path.
EmptyBase == stmt.level >= 1 /\ RuleRemoved = Len(stmt.module_path)

\* The from-module, if any, and the imported name.
ItemBelowTop == (IF stmt.module = None THEN <<>> ELSE stmt.module[1]) \o stmt.name

\* C25: when the dots of a relative import climb to the top of the importing
\* module's path, so that the base is empty, the normalised imported item is
\* the from-module (if any) and the name, with no empty leading component.
C25_EmptyBaseNoLeadingDot ==
    EmptyBase => /\ stmt.parser # None => stmt.parser = Some(ItemBelowTop)
                 /\ stmt.utils # None => stmt.utils = Some(Some(ItemBelowTop))

\* The part of C25 about utils.rs alone.
C25_UtilsNoLeadingDot ==
    (EmptyBase /\ stmt.utils # None) => stmt.utils = Some(Some(ItemBelowTop))

\* What the call of thread t returns when it runs alone on the finder.
AloneResult(t) ==
    CASE threads[t].op = "find_all_subclasses" ->
           find_all_subclasses(graph, threads[t].root)
      [] threads[t].op = "find_all_parent_classes" ->
           find_all_parent_classes(graph, threads[t].root)
      [] threads[t].op = "resolve_through_reexports" ->
           resolve_through_reexports(registry, threads[t].id)

ThreadResult(t) ==
    IF threads[t].op \in TraversalOps THEN threads[t].s.result
    ELSE threads[t].walk.result

\* C26: queries running concurrently on one built registry and graph each
\* return what they return when run alone, and leave the registry and the
\* graph as they were built; the visited set of one call is not seen by
\* another.
C26_ConcurrentAsAlone ==
    /\ registry = Registry_build(order)
    /\ graph = InheritanceGraph_build(registry, order)
    /\ \A t \in Threads : Finished(t) => ThreadResult(t) = AloneResult(t)

\* Two traversals of the diamond have run side by side and met the same
\* classes: one from p.q.A, one from r.B, both over p.s.D.
C26_Witness ==
    /\ order = DiamondTree
    /\ \E t, u \in Threads :
          /\ t # u
          /\ Finished(t) /\ Finished(u)
          /\ threads[t].op = "find_all_subclasses"
          /\ threads[t].root = ClassId(PQ, A)
          /\ threads[t].s.result = <<ClassId(R, B), ClassId(R, C), ClassId(PS, D)>>
          /\ threads[u].op = "find_all_subclasses"
          /\ threads[u].root = ClassId(R, B)
          /\ threads[u].s.result = <<ClassId(PS, D)>>
          /\ threads[t].s.visited \cap threads[u].s.visited # {}

-----------------------------------------------------------------------------
(* Closure of the registry and the graph *)

\* The names asked of resolve_class: every class name, every class name
\* qualified by a module path, and every base written in a file.
ResolveNames ==
    ClassNames
      \cup {Dot(m, n) : m \in ModulePaths, n \in ClassNames}
      \cup UNION {UNION {{c.bases[i].parts : i \in 1..Len(c.bases)} :
                            c \in SeqToSet(f.classes)} : f \in ParsedFiles}

Resolutions(reg) ==
    {resolve_class(reg, m, n) : m \in ModulePaths, n \in ResolveNames}

\* C27: every ClassId resolve_class returns, for any context module and any
\* name, is a key of the registry's classes map; every class in the children
\* or the parents relation of the graph, parent or child, is a registered
\* class.
C27_ResolvedAndLinkedAreRegistered ==
    Built =>
       /\ \A r \in Resolutions(registry) :
             IsSome(r) => Unwrap(r) \in DOMAIN registry.classes
       /\ GraphNodes \subseteq DOMAIN registry.classes
       /\ \A p \in GraphNodes :
             /\ Children(graph, p) \subseteq DOMAIN registry.classes
             /\ SeqToSet(find_direct_parent_classes(graph, p))
                  \subseteq DOMAIN registry.classes

\* r.py imports A from p.q and p/q.py is not part of the tree: the name
\* resolves to nothing in r, while another name resolves through an import
\* and the graph has an edge.
C27_Witness ==
    /\ Built
    /\ \E m \in ModulePaths, n \in ClassNames :
          /\ m \in DOMAIN registry.imports
          /\ IsSome(resolve_name(n, registry.imports[m], m, m \in registry.packages))
          /\ resolve_class(registry, m, n) = None
    /\ \E m \in ModulePaths, n \in ClassNames :
          /\ IsSome(resolve_class(registry, m, n))
          /\ Unwrap(resolve_class(registry, m, n)).module_path # m
    /\ \E p \in GraphNodes : Children(graph, p) # {}

\* C28: ancestor and descendant queries are dual: for all registered classes
\* B and C, C is in find_all_subclasses(B) if and only if B is in
\* find_all_parent_classes(C), on graphs with diamonds and cycles too.
C28_AncestorsDualToDescendants ==
    Built =>
       \A b, c \in DOMAIN registry.classes :
          Contains(find_all_subclasses(graph, b), c)
            <=> Contains(find_all_parent_classes(graph, c), b)

\* The diamond: p.s.D under r.B and r.C, both under p.q.A; D is a descendant
\* of A two levels down and A an ancestor of D.
C28_Witness ==
    /\ Built
    /\ SeqToSet(find_direct_parent_classes(graph, ClassId(PS, D)))
         = {ClassId(R, B), ClassId(R, C)}
    /\ Contains(find_all_subclasses(graph, ClassId(PQ, A)), ClassId(PS, D))
    /\ Contains(find_all_parent_classes(graph, ClassId(PS, D)), ClassId(PQ, A))
    /\ ~ Contains(find_direct_parent_classes(graph, ClassId(PS, D)), ClassId(PQ, A))

\* The cycle: r.A and p.s.B are each other's base; each is a descendant and an
\* ancestor of the other and neither of itself.
C28_WitnessCycle ==
    /\ Built
    /\ find_all_subclasses(graph, ClassId(R, A)) = <<ClassId(PS, B)>>
    /\ find_all_parent_classes(graph, ClassId(R, A)) = <<ClassId(PS, B)>>
    /\ find_all_subclasses(graph, ClassId(PS, B)) = <<ClassId(R, A)>>

-----------------------------------------------------------------------------
(* Cache entries *)

\* Every write gives the file a new (modification time, size), so an entry
\* whose metadata are the file's present ones was made of the present text
\* exactly when its ParsedFile is what the present text parses to.
EntryOfItsContent(cache, file_path) ==
    cache[file_path].meta = disk[file_path].meta
    => Ok(cache[file_path].parsed) = parse_one(file_path, disk[file_path].source)

\* C30: every entry the cache holds after parse_with_cache pairs a ParsedFile
\* with the (modification time, size) the file had when it was parsed, also
\* when the file is modified between its parse and the reading of its
\* metadata, so that a later hit never serves facts of an older content.
C30_EntryPairsContentWithItsMetadata ==
    /\ \A f \in DOMAIN cache_file : EntryOfItsContent(cache_file, f)
    /\ (run.use_cache /\ run.pc \in {"save", "collect", "done"})
       => \A f \in DOMAIN run.cache : EntryOfItsContent(run.cache, f)

\* The part of C30 about serving: a result taken from the cache in the first
\* pass comes from an entry whose metadata were the file's at that moment.
C30_NoHitOnChangedMetadata ==
    [][(run.pc = "check" /\ run'.pc # "idle" /\ Len(run'.results) > Len(run.results))
       => LET f == PythonFiles[run.i]
          IN /\ f \in DOMAIN run.cache
             /\ run.cache[f].meta = disk[f].meta]_vars

====
